---- MODULE Spec2Model ----
(***************************************************************************)
(* Model of the CoinGecko client (src/src/client.rs).                      *)
(*                                                                         *)
(* A Rust string is modelled as a sequence of tokens.  The literal text of *)
(* every format! template is cut at its punctuation ("?", "&", "=", the    *)
(* separator "%2C") and at its substitution points; caller-supplied        *)
(* strings are token sequences too and are copied into the URL unchanged,  *)
(* as format! and join do.  Integers are rendered digit by digit.          *)
(*                                                                         *)
(* One caller uses one client.  An endpoint operation runs up to its first *)
(* await in one step (it builds the query, calls get_url and hands the GET *)
(* to reqwest); the transport then fails the send or answers with a status *)
(* line; the body is then read and decoded by json().                      *)
(***************************************************************************)
EXTENDS Integers, Sequences, FiniteSets, TLC

VARIABLES client, pc, req, gets, resp, result

vars == <<client, pc, req, gets, resp, result>>

(***************************************************************************)
(* Bounds of the model.                                                    *)
(***************************************************************************)
\* longest identifier / currency list a caller passes
MaxLen == 2

(***************************************************************************)
(* Option<T>                                                               *)
(***************************************************************************)
None == [some |-> FALSE]
Some(v) == [some |-> TRUE, val |-> v]

(***************************************************************************)
(* String helpers                                                          *)
(***************************************************************************)
\* number of occurrences of token t in string s
RECURSIVE Count(_, _)
Count(t, s) ==
  IF s = <<>> THEN 0
  ELSE (IF Head(s) = t THEN 1 ELSE 0) + Count(t, Tail(s))

\* join that separates with a raw comma
RECURSIVE join_comma(_, _)
join_comma(list, sep) ==
  IF list = <<>> THEN <<>>
  ELSE IF Len(list) = 1 THEN list[1]
  ELSE list[1] \o <<",">> \o join_comma(Tail(list), sep)

\* [&str]::join(sep): the first element, then sep and the element for each
\* further one; the empty string for the empty list
RECURSIVE join(_, _)
join(list, sep) ==
  IF list = <<>> THEN <<>>
  ELSE IF Len(list) = 1 THEN list[1]
  ELSE list[1] \o sep \o join(Tail(list), sep)

\* bool rendered as a number
fmt_bool_num(b) == IF b THEN <<"1">> ELSE <<"0">>

\* Display for bool
fmt_bool(b) == IF b THEN <<"true">> ELSE <<"false">>

Digit == <<"0", "1", "2", "3", "4", "5", "6", "7", "8", "9">>

\* decimal digits of a natural number, most significant first
RECURSIVE fmt_u64(_)
fmt_u64(n) ==
  IF n < 10 THEN <<Digit[n + 1]>>
  ELSE fmt_u64(n \div 10) \o <<Digit[(n % 10) + 1]>>

\* Display for i64 / i64::to_string
fmt_i64(n) == IF n < 0 THEN <<"-">> \o fmt_u64(0 - n) ELSE fmt_u64(n)

\* n written with at least w digits, zero-padded on the left
RECURSIVE pad(_, _)
pad(n, w) ==
  IF w <= 1 THEN fmt_u64(n)
  ELSE IF Len(fmt_u64(n)) >= w THEN fmt_u64(n)
  ELSE <<"0">> \o pad(n, w - 1)

\* the date of coin_history written year first
format_dmy_iso(date) ==
  pad(date.y, 4) \o <<"-">> \o pad(date.m, 2) \o <<"-">> \o pad(date.d, 2)

\* NaiveDate::format("%d-%m-%Y"), years 0..9999
format_dmy(date) ==
  pad(date.d, 2) \o <<"-">> \o pad(date.m, 2) \o <<"-">> \o pad(date.y, 4)

\* NaiveDate::format("%Y-%m-%d"), years 0..9999
format_ymd(date) ==
  pad(date.y, 4) \o <<"-">> \o pad(date.m, 2) \o <<"-">> \o pad(date.d, 2)

\* days from 1970-01-01 to the civil date y-m-d (proleptic Gregorian)
days_from_civil(y, m, d) ==
  LET yy == IF m <= 2 THEN y - 1 ELSE y
      era == yy \div 400
      yoe == yy - era * 400
      mp == IF m > 2 THEN m - 3 ELSE m + 9
      doy == (153 * mp + 2) \div 5 + d - 1
      doe == yoe * 365 + yoe \div 4 - yoe \div 100 + doy
  IN era * 146097 + doe - 719468

\* NaiveDateTime::timestamp(): seconds since the Unix epoch
timestamp(dt) ==
  days_from_civil(dt.y, dt.m, dt.d) * 86400 + dt.h * 3600 + dt.mi * 60 + dt.s

(***************************************************************************)
(* Construction                                                            *)
(***************************************************************************)
\* new that leaves an empty key in place of none
new_empty_key(host) == [host |-> host, api_key |-> Some(<<>>)]

new(host) == [host |-> host, api_key |-> None]

new_with_key(host, api_key) == [host |-> host, api_key |-> Some(api_key)]

default == new(<<"https://api.coingecko.com/api/v3">>)

(***************************************************************************)
(* get_url                                                                 *)
(***************************************************************************)
\* get_url with the key parameter always introduced by "?"
get_url_question(self, endpoint, params) ==
  LET k == self.api_key
      p == IF params.some /\ k.some
             THEN params.val \o <<"?", "x_cg_pro_api_key", "=">> \o k.val
           ELSE IF params.some THEN params.val
           ELSE IF k.some THEN <<"?", "x_cg_pro_api_key", "=">> \o k.val
           ELSE <<>>
  IN self.host \o endpoint \o p

\* get_url that adds the key only when the operation has no query
get_url_keyless_query(self, endpoint, params) ==
  LET k == self.api_key
      p == IF params.some THEN params.val
           ELSE IF k.some THEN <<"?", "x_cg_pro_api_key", "=">> \o k.val
           ELSE <<>>
  IN self.host \o endpoint \o p

\* get_url with the key parameter always introduced by "&"
get_url_ampersand(self, endpoint, params) ==
  LET k == self.api_key
      p == IF params.some /\ k.some
             THEN params.val \o <<"&", "x_cg_pro_api_key", "=">> \o k.val
           ELSE IF params.some THEN params.val
           ELSE IF k.some THEN <<"&", "x_cg_pro_api_key", "=">> \o k.val
           ELSE <<>>
  IN self.host \o endpoint \o p

get_url(self, endpoint, params) ==
  LET k == self.api_key
      p == IF params.some /\ k.some
             THEN params.val \o <<"&", "x_cg_pro_api_key", "=">> \o k.val
           ELSE IF params.some THEN params.val
           ELSE IF k.some THEN <<"?", "x_cg_pro_api_key", "=">> \o k.val
           ELSE <<>>
  IN self.host \o endpoint \o p

(***************************************************************************)
(* Input domains                                                           *)
(***************************************************************************)
\* the clients a program constructs: custom host without and with a key,
\* the default host, and the degenerate empty host with an empty key
Clients ==
  { new(<<"h">>), new_with_key(<<"h">>, <<"abc">>), default,
    new_with_key(<<>>, <<>>) }

\* caller-supplied scalar strings (coin id, currency, category ...)
Strs == { <<>>, <<"bitcoin">> }

\* caller-supplied currency names
Currs == { <<>>, <<"usd">> }

OptStrs == {None} \cup { Some(s) : s \in Strs }

\* elements of identifier lists; the second one is two ids handed over in one
\* string, so it holds a raw comma
ListElems == { <<"bitcoin">>, <<"ethereum", ",", "tether">> }

\* all lists of at most n elements
RECURSIVE ListsUpTo(_)
ListsUpTo(n) ==
  IF n = 0 THEN { <<>> }
  ELSE LET shorter == ListsUpTo(n - 1)
       IN shorter \cup { Append(l, e) : l \in { x \in shorter : Len(x) = n - 1 },
                                        e \in ListElems }

Lists == ListsUpTo(MaxLen)

\* currency lists: the same shapes with currency names
CurrElem(e) == IF e = <<"bitcoin">> THEN <<"usd">> ELSE <<"eur", ",", "gbp">>

CurrLists == { [i \in 1..Len(l) |-> CurrElem(l[i])] : l \in Lists }

OptLists == {None} \cup { Some(l) : l \in Lists }

Ints == { 0 - 1, 25 }

\* the four include_* flags of token_price
Flags4 == { <<TRUE, TRUE, TRUE, TRUE>>, <<FALSE, FALSE, FALSE, FALSE>>,
            <<TRUE, FALSE, TRUE, FALSE>> }

Dates ==
  { [y |-> 2017, m |-> 12, d |-> 30], [y |-> 2021, m |-> 10, d |-> 7],
    [y |-> 2022, m |-> 1, d |-> 5] }

DateTimes ==
  { [y |-> 2021, m |-> 1, d |-> 1, h |-> 0, mi |-> 0, s |-> 0],
    [y |-> 1969, m |-> 12, d |-> 31, h |-> 23, mi |-> 59, s |-> 59],
    [y |-> 2000, m |-> 2, d |-> 29, h |-> 12, mi |-> 0, s |-> 0] }

\* params::MarketsOrder
MarketsOrder ==
  { "MarketCapDesc", "MarketCapAsc", "GeckoDesc", "GeckoAsc",
    "VolumeDesc", "VolumeAsc", "IdDesc", "IdAsc" }

\* params::PriceChangePercentage
PriceChangePercentage ==
  { "OneHour", "TwentyFourHours", "SevenDays", "FourteenDays",
    "ThirtyDays", "TwoHundredDays", "OneYear" }

\* params::TickersOrder
TickersOrder == { "TrustScoreAsc", "TrustScoreDesc", "VolumeDesc" }

\* params::OhlcDays
OhlcDays ==
  { "OneDay", "SevenDays", "FourteenDays", "ThirtyDays", "NinetyDays",
    "OneHundredEightyDays", "ThreeHundredSixtyFiveDays" }

\* params::DerivativesIncludeTickers
DerivativesIncludeTickers == { "All", "Unexpired" }

\* params::DerivativeExchangeOrder
DerivativeExchangeOrder ==
  { "NameAsc", "NameDesc", "OpenInterestBtcAsc", "OpenInterestBtcDesc",
    "TradeVolume24hBtcAsc", "TradeVolume24hBtcDesc" }

\* params::CompaniesCoinId
CompaniesCoinId == { "Bitcoin", "Ethereum" }

\* the remaining arguments of coins_markets
MarketsRest ==
  { [vs_currency |-> <<"usd">>, per_page |-> 25, page |-> 0 - 1,
     sparkline |-> TRUE, price_change_percentage |-> <<>>],
    [vs_currency |-> <<>>, per_page |-> 0 - 1, page |-> 25,
     sparkline |-> FALSE, price_change_percentage |-> <<"OneHour">>],
    [vs_currency |-> <<"usd">>, per_page |-> 25, page |-> 25,
     sparkline |-> FALSE,
     price_change_percentage |->
       <<"OneHour", "TwentyFourHours", "SevenDays", "FourteenDays",
         "ThirtyDays", "TwoHundredDays", "OneYear">>] }

\* the remaining arguments of coin_tickers and exchange_tickers
TickersRest ==
  { [include_exchange_logo |-> TRUE, page |-> 25, depth |-> FALSE],
    [include_exchange_logo |-> FALSE, page |-> 0 - 1, depth |-> TRUE] }

\* endpoints and params a caller hands to get_url directly
RawEndpoints == { <<>>, <<"/ping">>, <<"/simple/price">> }

RawParams ==
  { None, Some(<<>>), Some(<<"?", "ids", "=", "1">>), Some(<<"ids", "=", "1">>) }

(***************************************************************************)
(* State                                                                   *)
(***************************************************************************)
NoReq == [op |-> "none"]
NoResp == [state |-> "none"]
NoResult == [state |-> "none"]

Ok(v) == [state |-> "ok", value |-> v]
Err(kind) == [state |-> "err", kind |-> kind]

Init ==
  /\ client \in Clients
  /\ pc = "idle"
  /\ req = NoReq
  /\ gets = <<>>
  /\ resp = NoResp
  /\ result = NoResult

\* get that spends the key: the client is keyless after the first request
get_spending_key(op, args, endpoint, params, R) ==
  LET url == get_url(client, endpoint, params)
  IN /\ req' = [op |-> op, args |-> args, endpoint |-> endpoint,
                params |-> params, url |-> url, rtype |-> R]
     /\ gets' = <<url>>
     /\ pc' = "sent"
     /\ resp' = NoResp
     /\ result' = NoResult
     /\ client' = [client EXCEPT !.api_key = None]

(***************************************************************************)
(* get: the part before the first await.  The URL is built and the GET is  *)
(* handed to the transport; R is the result type the caller declared.      *)
(***************************************************************************)
get(op, args, endpoint, params, R) ==
  LET url == get_url(client, endpoint, params)
  IN /\ req' = [op |-> op, args |-> args, endpoint |-> endpoint,
                params |-> params, url |-> url, rtype |-> R]
     /\ gets' = <<url>>
     /\ pc' = "sent"
     /\ resp' = NoResp
     /\ result' = NoResult
     /\ UNCHANGED client

\* a caller uses the public get_url directly: no request is made
GetUrl ==
  \E endpoint \in RawEndpoints, params \in RawParams :
    /\ pc = "idle"
    /\ req' = [op |-> "get_url", args |-> <<>>, endpoint |-> endpoint,
               params |-> params, url |-> get_url(client, endpoint, params),
               rtype |-> "String"]
    /\ gets' = <<>>
    /\ pc' = "done"
    /\ resp' = NoResp
    /\ result' = Ok(get_url(client, endpoint, params))
    /\ UNCHANGED client

(***************************************************************************)
(* Transport (reqwest) and decoding                                        *)
(***************************************************************************)
Statuses == { 200, 500 }

\* what a response body may hold: no JSON at all, JSON of another shape
\* (a required field is missing), or JSON of the shape of type T
Bodies(T) ==
  { [json |-> FALSE, shape |-> "garbage"],
    [json |-> TRUE, shape |-> "other"],
    [json |-> TRUE, shape |-> T] }

\* json that accepts any well-formed JSON, filling in what is missing
json_lenient(body, R) ==
  IF body.json THEN Ok([type |-> R]) ELSE Err("Decode")

\* Response::json::<R>(): serde_json on the bytes read
json(body, R) ==
  IF body.json /\ body.shape = R THEN Ok([type |-> R]) ELSE Err("Decode")

\* a failed send is retried
SendFails_retry ==
  /\ pc = "sent"
  /\ pc' = "sent"
  /\ gets' = Append(gets, req.url)
  /\ UNCHANGED <<client, req, resp, result>>

\* reqwest::get(url).await? fails: the URL is refused by reqwest, connection
\* error or timeout
SendFails ==
  /\ pc = "sent"
  /\ pc' = "done"
  /\ resp' = [state |-> "failed"]
  /\ result' = Err("Transport")
  /\ UNCHANGED <<client, req, gets>>

\* reqwest::get(url).await? yields a Response, whatever its status
Respond ==
  \E s \in Statuses :
    /\ pc = "sent"
    /\ pc' = "responded"
    /\ resp' = [state |-> "headers", status |-> s]
    /\ UNCHANGED <<client, req, gets, result>>

\* .json().await: reading the body fails
BodyFails ==
  /\ pc = "responded"
  /\ pc' = "done"
  /\ resp' = [state |-> "broken", status |-> resp.status]
  /\ result' = Err("Transport")
  /\ UNCHANGED <<client, req, gets>>

\* .json().await: the body is read and decoded
Json ==
  /\ pc = "responded"
  /\ \E body \in Bodies(req.rtype) :
       /\ pc' = "done"
       /\ resp' = [state |-> "complete", status |-> resp.status, body |-> body]
       /\ result' = json(body, req.rtype)
       /\ UNCHANGED <<client, req, gets>>

\* the caller takes the result; the client is ready for the next call
Return ==
  /\ pc = "done"
  /\ pc' = "idle"
  /\ req' = NoReq
  /\ gets' = <<>>
  /\ resp' = NoResp
  /\ result' = NoResult
  /\ UNCHANGED client

(***************************************************************************)
(* Endpoint operations                                                     *)
(***************************************************************************)
ping ==
  /\ pc = "idle"
  /\ get("ping", <<>>, <<"/ping">>, None, "SimplePing")

price_params(ids, vs_currencies, include_market_cap, include_24hr_vol, include_24hr_change, include_last_updated_at) ==
  <<"?", "ids", "=">> \o join(ids, <<"%2C">>)
    \o <<"&", "vs_currencies", "=">> \o join(vs_currencies, <<"%2C">>)
    \o <<"&", "include_market_cap", "=">> \o fmt_bool(include_market_cap)
    \o <<"&", "include_24hr_vol", "=">> \o fmt_bool(include_24hr_vol)
    \o <<"&", "include_24hr_change", "=">> \o fmt_bool(include_24hr_change)
    \o <<"&", "include_last_updated_at", "=">> \o fmt_bool(include_last_updated_at)

\* price that refuses an empty list of ids before any request
price_checking_ids ==
  /\ pc = "idle"
  /\ \E ids \in Lists, vs_currencies \in CurrLists, flags \in [1..4 -> BOOLEAN] :
       IF ids = <<>>
         THEN /\ req' = [op |-> "price",
                         args |-> [ids |-> ids, vs_currencies |-> vs_currencies,
                                   flags |-> flags],
                         endpoint |-> <<"/simple/price">>, params |-> None,
                         url |-> <<>>, rtype |-> "HashMap<String, Price>"]
              /\ gets' = <<>>
              /\ pc' = "done"
              /\ resp' = NoResp
              /\ result' = Err("InvalidArgument")
              /\ UNCHANGED client
         ELSE get("price",
                  [ids |-> ids, vs_currencies |-> vs_currencies, flags |-> flags],
                  <<"/simple/price">>,
                  Some(price_params(ids, vs_currencies,
                                    flags[1], flags[2], flags[3], flags[4])),
                  "HashMap<String, Price>")

price ==
  /\ pc = "idle"
  /\ \E ids \in Lists, vs_currencies \in CurrLists, flags \in [1..4 -> BOOLEAN] :
       get("price",
           [ids |-> ids, vs_currencies |-> vs_currencies, flags |-> flags],
           <<"/simple/price">>,
           Some(price_params(ids, vs_currencies,
                             flags[1], flags[2], flags[3], flags[4])),
           "HashMap<String, Price>")

token_price_params(contract_addresses, vs_currencies, include_market_cap, include_24hr_vol, include_24hr_change, include_last_updated_at) ==
  <<"?", "contract_addresses", "=">> \o join(contract_addresses, <<"%2C">>)
    \o <<"&", "vs_currencies", "=">> \o join(vs_currencies, <<"%2C">>)
    \o <<"&", "include_market_cap", "=">> \o fmt_bool(include_market_cap)
    \o <<"&", "include_24hr_vol", "=">> \o fmt_bool(include_24hr_vol)
    \o <<"&", "include_24hr_change", "=">> \o fmt_bool(include_24hr_change)
    \o <<"&", "include_last_updated_at", "=">> \o fmt_bool(include_last_updated_at)

token_price ==
  /\ pc = "idle"
  /\ \E id \in Strs, contract_addresses \in Lists, vs_currencies \in CurrLists,
        flags \in Flags4 :
       get("token_price",
           [id |-> id, contract_addresses |-> contract_addresses,
            vs_currencies |-> vs_currencies, flags |-> flags],
           <<"/simple/token_price/">> \o id,
           Some(token_price_params(contract_addresses, vs_currencies,
                                   flags[1], flags[2], flags[3], flags[4])),
           "HashMap<String, Price>")

supported_vs_currencies ==
  /\ pc = "idle"
  /\ get("supported_vs_currencies", <<>>, <<"/simple/supported_vs_currencies">>,
         None, "SupportedVsCurrencies")

coins_list ==
  /\ pc = "idle"
  /\ \E include_platform \in BOOLEAN :
       get("coins_list", [include_platform |-> include_platform],
           <<"/coins/list">>,
           Some(<<"?", "include_platform", "=">> \o fmt_bool(include_platform)),
           "Vec<CoinsListItem>")

\* the category fragment written even when there is no category
markets_category_always(category) ==
  <<"&", "category", "=">> \o (IF category.some THEN category.val ELSE <<"None">>)

\* the category fragment of coins_markets
markets_category(category) ==
  IF category.some THEN <<"&", "category", "=">> \o category.val ELSE <<>>

\* the wire token of a MarketsOrder with the two gecko orders exchanged
markets_order_gecko(order) ==
  CASE order = "MarketCapDesc" -> <<"market_cap_desc">>
    [] order = "MarketCapAsc" -> <<"market_cap_asc">>
    [] order = "GeckoDesc" -> <<"gecko_asc">>
    [] order = "GeckoAsc" -> <<"gecko_desc">>
    [] order = "VolumeDesc" -> <<"volume_desc">>
    [] order = "VolumeAsc" -> <<"volume_asc">>
    [] order = "IdDesc" -> <<"id_desc">>
    [] order = "IdAsc" -> <<"id_asc">>

\* the wire token of a MarketsOrder
markets_order(order) ==
  CASE order = "MarketCapDesc" -> <<"market_cap_desc">>
    [] order = "MarketCapAsc" -> <<"market_cap_asc">>
    [] order = "GeckoDesc" -> <<"gecko_desc">>
    [] order = "GeckoAsc" -> <<"gecko_asc">>
    [] order = "VolumeDesc" -> <<"volume_desc">>
    [] order = "VolumeAsc" -> <<"volume_asc">>
    [] order = "IdDesc" -> <<"id_desc">>
    [] order = "IdAsc" -> <<"id_asc">>

\* the wire token of a PriceChangePercentage
price_change_token(x) ==
  CASE x = "OneHour" -> <<"1h">>
    [] x = "TwentyFourHours" -> <<"24h">>
    [] x = "SevenDays" -> <<"7d">>
    [] x = "FourteenDays" -> <<"14d">>
    [] x = "ThirtyDays" -> <<"30d">>
    [] x = "TwoHundredDays" -> <<"200d">>
    [] x = "OneYear" -> <<"1y">>

coins_markets_params(vs_currency, ids, category, order, per_page, page, sparkline, price_change_percentage) ==
  <<"?", "vs_currency", "=">> \o vs_currency
    \o <<"&", "ids", "=">> \o join(ids, <<"%2C">>)
    \o markets_category(category)
    \o <<"&", "order", "=">> \o markets_order(order)
    \o <<"&", "per_page", "=">> \o fmt_i64(per_page)
    \o <<"&", "page", "=">> \o fmt_i64(page)
    \o <<"&", "sparkline", "=">> \o fmt_bool(sparkline)
    \o <<"&", "price_change_percentage", "=">>
    \o join([i \in 1..Len(price_change_percentage) |->
               price_change_token(price_change_percentage[i])], <<"%2C">>)

coins_markets ==
  /\ pc = "idle"
  /\ \E ids \in Lists, category \in OptStrs, order \in MarketsOrder,
        rest \in MarketsRest :
       get("coins_markets",
           [vs_currency |-> rest.vs_currency, ids |-> ids, category |-> category,
            order |-> order, per_page |-> rest.per_page, page |-> rest.page,
            sparkline |-> rest.sparkline,
            price_change_percentage |-> rest.price_change_percentage],
           <<"/coins/markets">>,
           Some(coins_markets_params(rest.vs_currency, ids, category, order,
                                     rest.per_page, rest.page, rest.sparkline,
                                     rest.price_change_percentage)),
           "Vec<CoinsMarketItem>")

coin ==
  /\ pc = "idle"
  /\ \E id \in Strs, f \in [1..6 -> BOOLEAN] :
       get("coin", [id |-> id, flags |-> f],
           <<"/coins/">> \o id,
           Some(<<"?", "localization", "=">> \o fmt_bool(f[1])
                \o <<"&", "tickers", "=">> \o fmt_bool(f[2])
                \o <<"&", "market_data", "=">> \o fmt_bool(f[3])
                \o <<"&", "community_data", "=">> \o fmt_bool(f[4])
                \o <<"&", "developer_data", "=">> \o fmt_bool(f[5])
                \o <<"&", "sparkline", "=">> \o fmt_bool(f[6])),
           "CoinsItem")

\* the wire token of a TickersOrder
tickers_order(order) ==
  CASE order = "TrustScoreAsc" -> <<"trust_score_asc">>
    [] order = "TrustScoreDesc" -> <<"trust_score_desc">>
    [] order = "VolumeDesc" -> <<"volume_desc">>

coin_tickers_params(exchange_ids, include_exchange_logo, page, order, depth) ==
  IF exchange_ids.some
    THEN <<"?", "exchange_ids", "=">> \o join(exchange_ids.val, <<"%2C">>)
           \o <<"&", "include_exchange_logo", "=">> \o fmt_bool(include_exchange_logo)
           \o <<"&", "page", "=">> \o fmt_i64(page)
           \o <<"&", "order", "=">> \o tickers_order(order)
           \o <<"&", "depth", "=">> \o fmt_bool(depth)
    ELSE <<"?", "include_exchange_logo", "=">> \o fmt_bool(include_exchange_logo)
           \o <<"&", "page", "=">> \o fmt_i64(page)
           \o <<"&", "order", "=">> \o tickers_order(order)
           \o <<"&", "depth", "=">> \o fmt_bool(depth)

coin_tickers ==
  /\ pc = "idle"
  /\ \E id \in Strs, exchange_ids \in OptLists, order \in TickersOrder,
        rest \in TickersRest :
       get("coin_tickers",
           [id |-> id, exchange_ids |-> exchange_ids,
            include_exchange_logo |-> rest.include_exchange_logo,
            page |-> rest.page, order |-> order, depth |-> rest.depth],
           <<"/coins/">> \o id \o <<"/tickers">>,
           Some(coin_tickers_params(exchange_ids, rest.include_exchange_logo,
                                    rest.page, order, rest.depth)),
           "Tickers")

coin_history ==
  /\ pc = "idle"
  /\ \E id \in Strs, date \in Dates, localization \in BOOLEAN :
       get("coin_history",
           [id |-> id, date |-> date, localization |-> localization],
           <<"/coins/">> \o id \o <<"/history">>,
           Some(<<"?", "date", "=">> \o format_dmy(date)
                \o <<"&", "localization", "=">> \o fmt_bool(localization)),
           "History")

coin_market_chart_params(vs_currency, days, use_daily_interval) ==
  IF use_daily_interval
    THEN <<"?", "vs_currency", "=">> \o vs_currency
           \o <<"&", "days", "=">> \o fmt_i64(days)
    ELSE <<"?", "vs_currency", "=">> \o vs_currency
           \o <<"&", "days", "=">> \o fmt_i64(days)
           \o <<"&", "interval", "=", "daily">>

coin_market_chart ==
  /\ pc = "idle"
  /\ \E id \in Strs, vs_currency \in Strs, days \in Ints,
        use_daily_interval \in BOOLEAN :
       get("coin_market_chart",
           [id |-> id, vs_currency |-> vs_currency, days |-> days,
            use_daily_interval |-> use_daily_interval],
           <<"/coins/">> \o id \o <<"/market_chart">>,
           Some(coin_market_chart_params(vs_currency, days, use_daily_interval)),
           "MarketChart")

\* the query of the range operations with the two bounds exchanged
range_params_swapped(vs_currency, from, to) ==
  <<"?", "vs_currency", "=">> \o vs_currency
    \o <<"&", "from", "=">> \o fmt_i64(timestamp(to))
    \o <<"&", "to", "=">> \o fmt_i64(timestamp(from))

\* the query of both market_chart/range operations
range_params(vs_currency, from, to) ==
  <<"?", "vs_currency", "=">> \o vs_currency
    \o <<"&", "from", "=">> \o fmt_i64(timestamp(from))
    \o <<"&", "to", "=">> \o fmt_i64(timestamp(to))

coin_market_chart_range ==
  /\ pc = "idle"
  /\ \E id \in Strs, vs_currency \in Strs, from \in DateTimes, to \in DateTimes :
       get("coin_market_chart_range",
           [id |-> id, vs_currency |-> vs_currency, from |-> from, to |-> to],
           <<"/coins/">> \o id \o <<"/market_chart/range">>,
           Some(range_params(vs_currency, from, to)),
           "MarketChart")

\* the integer of an OhlcDays with the year taken as 360 days
ohlc_days_360(days) ==
  CASE days = "OneDay" -> 1
    [] days = "SevenDays" -> 7
    [] days = "FourteenDays" -> 14
    [] days = "ThirtyDays" -> 30
    [] days = "NinetyDays" -> 90
    [] days = "OneHundredEightyDays" -> 180
    [] days = "ThreeHundredSixtyFiveDays" -> 360

\* the integer of an OhlcDays
ohlc_days(days) ==
  CASE days = "OneDay" -> 1
    [] days = "SevenDays" -> 7
    [] days = "FourteenDays" -> 14
    [] days = "ThirtyDays" -> 30
    [] days = "NinetyDays" -> 90
    [] days = "OneHundredEightyDays" -> 180
    [] days = "ThreeHundredSixtyFiveDays" -> 365

coin_ohlc ==
  /\ pc = "idle"
  /\ \E id \in Strs, vs_currency \in Currs, days \in OhlcDays :
       get("coin_ohlc", [id |-> id, vs_currency |-> vs_currency, days |-> days],
           <<"/coins/">> \o id \o <<"/ohlc">>,
           Some(<<"?", "vs_currency", "=">> \o vs_currency
                \o <<"&", "days", "=">> \o fmt_i64(ohlc_days(days))),
           "Vec<Vec<f64>>")

contract ==
  /\ pc = "idle"
  /\ \E id \in Strs, contract_address \in Strs :
       get("contract", [id |-> id, contract_address |-> contract_address],
           <<"/coins/">> \o id \o <<"/contract/">> \o contract_address,
           None, "Contract")

contract_market_chart ==
  /\ pc = "idle"
  /\ \E id \in Strs, contract_address \in Strs, vs_currency \in Strs,
        days \in Ints :
       get("contract_market_chart",
           [id |-> id, contract_address |-> contract_address,
            vs_currency |-> vs_currency, days |-> days],
           <<"/coins/">> \o id \o <<"/contract/">> \o contract_address
             \o <<"/market_chart/">>,
           Some(<<"?", "vs_currency", "=">> \o vs_currency
                \o <<"&", "days", "=">> \o fmt_i64(days)),
           "MarketChart")

contract_market_chart_range ==
  /\ pc = "idle"
  /\ \E id \in Strs, contract_address \in Strs, vs_currency \in Strs,
        from \in DateTimes, to \in DateTimes :
       get("contract_market_chart_range",
           [id |-> id, contract_address |-> contract_address,
            vs_currency |-> vs_currency, from |-> from, to |-> to],
           <<"/coins/">> \o id \o <<"/contract/">> \o contract_address
             \o <<"/market_chart/range">>,
           Some(range_params(vs_currency, from, to)),
           "MarketChart")


\* the "?per_page=..&page=.." query of the paginated list operations
page_params(per_page, page) ==
  <<"?", "per_page", "=">> \o fmt_i64(per_page)
    \o <<"&", "page", "=">> \o fmt_i64(page)

asset_platforms ==
  /\ pc = "idle"
  /\ get("asset_platforms", <<>>, <<"/asset_platforms">>, None,
         "Vec<AssetPlatform>")

categories_list ==
  /\ pc = "idle"
  /\ get("categories_list", <<>>, <<"/coins/categories/list">>, None,
         "Vec<CategoryId>")

categories ==
  /\ pc = "idle"
  /\ get("categories", <<>>, <<"/coins/categories">>, None, "Vec<Category>")

exchanges ==
  /\ pc = "idle"
  /\ \E per_page \in Ints, page \in Ints :
       get("exchanges", [per_page |-> per_page, page |-> page],
           <<"/exchanges">>, Some(page_params(per_page, page)), "Vec<Exchange>")

exchanges_list ==
  /\ pc = "idle"
  /\ get("exchanges_list", <<>>, <<"/exchanges/list">>, None, "Vec<ExchangeId>")

exchange ==
  /\ pc = "idle"
  /\ \E id \in Strs :
       get("exchange", [id |-> id], <<"/exchanges/">> \o id, None, "Exchange")

exchange_tickers_params(coin_ids, include_exchange_logo, page, order, depth) ==
  IF coin_ids.some
    THEN <<"?", "coin_ids", "=">> \o join(coin_ids.val, <<"%2C">>)
           \o <<"&", "include_exchange_logo", "=">> \o fmt_bool(include_exchange_logo)
           \o <<"&", "page", "=">> \o fmt_i64(page)
           \o <<"&", "order", "=">> \o tickers_order(order)
           \o <<"&", "depth", "=">> \o fmt_bool(depth)
    ELSE <<"?", "include_exchange_logo", "=">> \o fmt_bool(include_exchange_logo)
           \o <<"&", "page", "=">> \o fmt_i64(page)
           \o <<"&", "order", "=">> \o tickers_order(order)
           \o <<"&", "depth", "=">> \o fmt_bool(depth)

exchange_tickers ==
  /\ pc = "idle"
  /\ \E id \in Strs, coin_ids \in OptLists, order \in TickersOrder,
        rest \in TickersRest :
       get("exchange_tickers",
           [id |-> id, coin_ids |-> coin_ids,
            include_exchange_logo |-> rest.include_exchange_logo,
            page |-> rest.page, order |-> order, depth |-> rest.depth],
           <<"/exchanges/">> \o id \o <<"/tickers">>,
           Some(exchange_tickers_params(coin_ids, rest.include_exchange_logo,
                                        rest.page, order, rest.depth)),
           "Tickers")

exchange_status_updates ==
  /\ pc = "idle"
  /\ \E id \in Strs, per_page \in Ints, page \in Ints :
       get("exchange_status_updates",
           [id |-> id, per_page |-> per_page, page |-> page],
           <<"/exchanges/">> \o id \o <<"/status_updates">>,
           Some(page_params(per_page, page)), "StatusUpdates")

exchange_volume_chart ==
  /\ pc = "idle"
  /\ \E id \in Strs, days \in Ints :
       get("exchange_volume_chart", [id |-> id, days |-> days],
           <<"/exchanges/">> \o id \o <<"/volume_chart">>,
           Some(<<"?", "days", "=">> \o fmt_i64(days)), "Vec<VolumeChartData>")

finance_platforms ==
  /\ pc = "idle"
  /\ \E per_page \in Ints, page \in Ints :
       get("finance_platforms", [per_page |-> per_page, page |-> page],
           <<"/finance_platforms">>, Some(page_params(per_page, page)),
           "Vec<FinancePlatform>")

finance_products ==
  /\ pc = "idle"
  /\ \E per_page \in Ints, page \in Ints :
       get("finance_products", [per_page |-> per_page, page |-> page],
           <<"/finance_products">>, Some(page_params(per_page, page)),
           "Vec<FinanceProduct>")

indexes ==
  /\ pc = "idle"
  /\ \E per_page \in Ints, page \in Ints :
       get("indexes", [per_page |-> per_page, page |-> page],
           <<"/indexes">>, Some(page_params(per_page, page)), "Vec<Index>")

indexes_market_id ==
  /\ pc = "idle"
  /\ \E market_id \in Strs, id \in Strs :
       get("indexes_market_id", [market_id |-> market_id, id |-> id],
           <<"/indexes/">> \o market_id \o <<"/">> \o id, None, "MarketIndex")

indexes_list ==
  /\ pc = "idle"
  /\ get("indexes_list", <<>>, <<"/indexes/list">>, None, "Vec<IndexId>")

\* the wire token of an optional DerivativesIncludeTickers, all by default
include_tickers_token_all(include_tickers) ==
  IF include_tickers.some
    THEN CASE include_tickers.val = "All" -> <<"all">>
           [] include_tickers.val = "Unexpired" -> <<"unexpired">>
    ELSE <<"all">>

\* the wire token of an optional DerivativesIncludeTickers
include_tickers_token(include_tickers) ==
  IF include_tickers.some
    THEN CASE include_tickers.val = "All" -> <<"all">>
           [] include_tickers.val = "Unexpired" -> <<"unexpired">>
    ELSE <<"unexpired">>

OptIncludeTickers == {None} \cup { Some(t) : t \in DerivativesIncludeTickers }

derivatives ==
  /\ pc = "idle"
  /\ \E include_tickers \in OptIncludeTickers :
       get("derivatives", [include_tickers |-> include_tickers],
           <<"/derivatives">>,
           Some(<<"?", "include_tickers", "=">>
                \o include_tickers_token(include_tickers)),
           "Vec<Derivative>")

\* the wire token of a DerivativeExchangeOrder
derivative_exchange_order(order) ==
  CASE order = "NameAsc" -> <<"name_asc">>
    [] order = "NameDesc" -> <<"name_desc">>
    [] order = "OpenInterestBtcAsc" -> <<"open_interest_btc_asc">>
    [] order = "OpenInterestBtcDesc" -> <<"open_interest_btc_desc">>
    [] order = "TradeVolume24hBtcAsc" -> <<"trade_volume_24h_btc_asc">>
    [] order = "TradeVolume24hBtcDesc" -> <<"trade_volume_24h_btc_desc">>

derivative_exchanges ==
  /\ pc = "idle"
  /\ \E order \in DerivativeExchangeOrder, per_page \in Ints, page \in Ints :
       get("derivative_exchanges",
           [order |-> order, per_page |-> per_page, page |-> page],
           <<"/derivatives/exchanges">>,
           Some(<<"?", "order", "=">> \o derivative_exchange_order(order)
                \o <<"&", "per_page", "=">> \o fmt_i64(per_page)
                \o <<"&", "page", "=">> \o fmt_i64(page)),
           "Vec<Derivative>")

derivatives_exchange ==
  /\ pc = "idle"
  /\ \E id \in Strs, include_tickers \in OptIncludeTickers :
       get("derivatives_exchange",
           [id |-> id, include_tickers |-> include_tickers],
           <<"/derivatives/exchanges/">> \o id,
           Some(<<"?", "include_tickers", "=">>
                \o include_tickers_token(include_tickers)),
           "Vec<Derivative>")

derivative_exchanges_list ==
  /\ pc = "idle"
  /\ get("derivative_exchanges_list", <<>>, <<"/derivatives/exchanges/list">>,
         None, "Vec<DerivativeExchangeId>")

\* the Vec of parameters status_updates collects, then "?" + join("&")
status_updates_params(category, project_type, per_page, page) ==
  LET c == IF category.some
             THEN << <<"category", "=">> \o category.val >> ELSE <<>>
      t == IF project_type.some
             THEN << <<"project_type", "=">> \o project_type.val >> ELSE <<>>
      params == c \o t \o << fmt_i64(per_page), fmt_i64(page) >>
  IN <<"?">> \o join(params, <<"&">>)

status_updates ==
  /\ pc = "idle"
  /\ \E category \in OptStrs, project_type \in OptStrs, per_page \in Ints,
        page \in Ints :
       get("status_updates",
           [category |-> category, project_type |-> project_type,
            per_page |-> per_page, page |-> page],
           <<"/status_updates">>,
           Some(status_updates_params(category, project_type, per_page, page)),
           "StatusUpdates")

\* the Vec of optional parameters events collects, joined with "&" behind
\* the "?", then the four fixed parameters
events_params(country_code, event_type, page, upcoming_events_only, from_date, to_date) ==
  LET c == IF country_code.some
             THEN << <<"country_code", "=">> \o country_code.val >> ELSE <<>>
      t == IF event_type.some
             THEN << <<"type", "=">> \o event_type.val >> ELSE <<>>
      params == c \o t
  IN <<"?">> \o join(params, <<"&">>)
       \o <<"&", "page", "=">> \o fmt_i64(page)
       \o <<"&", "upcoming_events_only", "=">> \o fmt_bool(upcoming_events_only)
       \o <<"&", "from_date", "=">> \o format_ymd(from_date)
       \o <<"&", "to_date", "=">> \o format_ymd(to_date)

events ==
  /\ pc = "idle"
  /\ \E country_code \in OptStrs, event_type \in OptStrs, page \in Ints,
        upcoming_events_only \in BOOLEAN, from_date \in Dates, to_date \in Dates :
       get("events",
           [country_code |-> country_code, event_type |-> event_type,
            page |-> page, upcoming_events_only |-> upcoming_events_only,
            from_date |-> from_date, to_date |-> to_date],
           <<"/events">>,
           Some(events_params(country_code, event_type, page,
                              upcoming_events_only, from_date, to_date)),
           "Events")

\* event_countries on a path of its own
event_countries_own_path ==
  /\ pc = "idle"
  /\ get("event_countries", <<>>, <<"/events/countries">>, None,
         "EventCountries")

event_countries ==
  /\ pc = "idle"
  /\ get("event_countries", <<>>, <<"/events/types">>, None, "EventCountries")

event_types ==
  /\ pc = "idle"
  /\ get("event_types", <<>>, <<"/events/types">>, None, "EventTypes")

exchange_rates ==
  /\ pc = "idle"
  /\ get("exchange_rates", <<>>, <<"/exchange_rates">>, None, "ExchangeRates")

trending ==
  /\ pc = "idle"
  /\ get("trending", <<>>, <<"/search/trending">>, None, "Trending")

global ==
  /\ pc = "idle"
  /\ get("global", <<>>, <<"/global">>, None, "Global")

global_defi ==
  /\ pc = "idle"
  /\ get("global_defi", <<>>, <<"/global/decentralized_finance_defi">>, None,
         "GlobalDefi")

\* the endpoint of a CompaniesCoinId
companies_endpoint(coin_id) ==
  CASE coin_id = "Bitcoin" -> <<"/companies/public_treasury/bitcoin">>
    [] coin_id = "Ethereum" -> <<"/companies/public_treasury/ethereum">>

companies ==
  /\ pc = "idle"
  /\ \E coin_id \in CompaniesCoinId :
       get("companies", [coin_id |-> coin_id], companies_endpoint(coin_id), None,
           "CompaniesPublicTreasury")

Next ==
  \/ GetUrl
  \/ ping
  \/ price
  \/ token_price
  \/ supported_vs_currencies
  \/ coins_list
  \/ coins_markets
  \/ coin
  \/ coin_tickers
  \/ coin_history
  \/ coin_market_chart
  \/ coin_market_chart_range
  \/ coin_ohlc
  \/ contract
  \/ contract_market_chart
  \/ contract_market_chart_range
  \/ asset_platforms
  \/ categories_list
  \/ categories
  \/ exchanges
  \/ exchanges_list
  \/ exchange
  \/ exchange_tickers
  \/ exchange_status_updates
  \/ exchange_volume_chart
  \/ finance_platforms
  \/ finance_products
  \/ indexes
  \/ indexes_market_id
  \/ indexes_list
  \/ derivatives
  \/ derivative_exchanges
  \/ derivatives_exchange
  \/ derivative_exchanges_list
  \/ status_updates
  \/ events
  \/ event_countries
  \/ event_types
  \/ exchange_rates
  \/ trending
  \/ global
  \/ global_defi
  \/ companies
  \/ SendFails
  \/ Respond
  \/ BodyFails
  \/ Json
  \/ Return

Spec == Init /\ [][Next]_vars

(***************************************************************************)
(* The program from before the client exists: one of the three             *)
(* constructors runs first, then the calls of Next.                        *)
(***************************************************************************)
\* no client yet
NoClient == [host |-> <<"unconstructed">>, api_key |-> None]

\* host: String of new and new_with_key, taken as it is
Hosts == { <<>>, <<"h">> }

\* api_key: String of new_with_key
Keys == { <<>>, <<"abc">> }

InitNew ==
  /\ client = NoClient
  /\ pc = "start"
  /\ req = NoReq
  /\ gets = <<>>
  /\ resp = NoResp
  /\ result = NoResult

\* CoinGeckoClient::new(host)
New ==
  /\ pc = "start"
  /\ \E host \in Hosts :
       /\ client' = new(host)
       /\ req' = [op |-> "new", args |-> [host |-> host]]
  /\ pc' = "idle"
  /\ UNCHANGED <<gets, resp, result>>

\* CoinGeckoClient::new_with_key(host, api_key)
NewWithKey ==
  /\ pc = "start"
  /\ \E host \in Hosts, api_key \in Keys :
       /\ client' = new_with_key(host, api_key)
       /\ req' = [op |-> "new_with_key",
                  args |-> [host |-> host, api_key |-> api_key]]
  /\ pc' = "idle"
  /\ UNCHANGED <<gets, resp, result>>

\* CoinGeckoClient::default()
Default ==
  /\ pc = "start"
  /\ client' = default
  /\ req' = [op |-> "default", args |-> <<>>]
  /\ pc' = "idle"
  /\ UNCHANGED <<gets, resp, result>>

NextNew ==
  \/ New
  \/ NewWithKey
  \/ Default
  \/ Next

SpecNew == InitNew /\ [][NextNew]_vars

(***************************************************************************)
(* Several callers on one client.  Every operation takes &self, so callers *)
(* share the client and nothing else; each call is a future of its own     *)
(* that holds its request, its reqwest Response and its result.  Here pc,  *)
(* req, resp and result are functions of the caller, and gets is the set   *)
(* of requests the transport holds, each with the caller whose future      *)
(* awaits it.                                                              *)
(***************************************************************************)
NumCallers == 2

Callers == 1..NumCallers

\* the calls the callers make: ping(), exchange(id), exchanges(per_page, page)
ConcCalls ==
  { [op |-> "ping", args |-> <<>>, endpoint |-> <<"/ping">>,
     params |-> None, rtype |-> "SimplePing"] }
  \cup { [op |-> "exchange", args |-> [id |-> id],
          endpoint |-> <<"/exchanges/">> \o id, params |-> None,
          rtype |-> "Exchange"] : id \in Strs }
  \cup { [op |-> "exchanges", args |-> [per_page |-> pp[1], page |-> pp[2]],
          endpoint |-> <<"/exchanges">>,
          params |-> Some(page_params(pp[1], pp[2])),
          rtype |-> "Vec<Exchange>"] : pp \in Ints \X Ints }

\* the client the callers share: without or with a key
ConcClients == { new(<<"h">>), new_with_key(<<"h">>, <<"abc">>) }

InitConc ==
  /\ client \in ConcClients
  /\ pc = [c \in Callers |-> "idle"]
  /\ req = [c \in Callers |-> NoReq]
  /\ gets = {}
  /\ resp = [c \in Callers |-> NoResp]
  /\ result = [c \in Callers |-> NoResult]

\* caller c calls an operation: get builds the URL and hands the GET to the
\* transport
CallerGet(c) ==
  /\ pc[c] = "idle"
  /\ \E call \in ConcCalls :
       LET url == get_url(client, call.endpoint, call.params)
       IN /\ req' = [req EXCEPT ![c] =
                       [op |-> call.op, args |-> call.args,
                        endpoint |-> call.endpoint, params |-> call.params,
                        url |-> url, rtype |-> call.rtype]]
          /\ gets' = gets \cup { [caller |-> c, url |-> url] }
  /\ pc' = [pc EXCEPT ![c] = "sent"]
  /\ UNCHANGED <<client, resp, result>>

\* the request of caller c fails in the transport
CallerSendFails(c) ==
  /\ pc[c] = "sent"
  /\ pc' = [pc EXCEPT ![c] = "done"]
  /\ resp' = [resp EXCEPT ![c] = [state |-> "failed"]]
  /\ result' = [result EXCEPT ![c] = Err("Transport")]
  /\ UNCHANGED <<client, req, gets>>

\* a response arrives on any request in flight and is given to caller c
CallerRespond_any(c) ==
  /\ pc[c] = "sent"
  /\ \E r \in gets, s \in Statuses :
       resp' = [resp EXCEPT ![c] =
                  [state |-> "headers", status |-> s, url |-> r.url]]
  /\ pc' = [pc EXCEPT ![c] = "responded"]
  /\ UNCHANGED <<client, req, gets, result>>

\* the response to the request of caller c arrives at the future of c
CallerRespond(c) ==
  /\ pc[c] = "sent"
  /\ \E r \in gets, s \in Statuses :
       /\ r.caller = c
       /\ resp' = [resp EXCEPT ![c] =
                     [state |-> "headers", status |-> s, url |-> r.url]]
  /\ pc' = [pc EXCEPT ![c] = "responded"]
  /\ UNCHANGED <<client, req, gets, result>>

\* reading the body of the response of caller c fails
CallerBodyFails(c) ==
  /\ pc[c] = "responded"
  /\ pc' = [pc EXCEPT ![c] = "done"]
  /\ resp' = [resp EXCEPT ![c] =
                [state |-> "broken", status |-> resp[c].status,
                 url |-> resp[c].url]]
  /\ result' = [result EXCEPT ![c] = Err("Transport")]
  /\ UNCHANGED <<client, req, gets>>

\* the body of the response of caller c is read and decoded
CallerJson(c) ==
  /\ pc[c] = "responded"
  /\ \E body \in Bodies(req[c].rtype) :
       /\ resp' = [resp EXCEPT ![c] =
                     [state |-> "complete", status |-> resp[c].status,
                      url |-> resp[c].url, body |-> body]]
       /\ result' = [result EXCEPT ![c] = json(body, req[c].rtype)]
  /\ pc' = [pc EXCEPT ![c] = "done"]
  /\ UNCHANGED <<client, req, gets>>

\* caller c takes its result; its future and its request are dropped
CallerReturn(c) ==
  /\ pc[c] = "done"
  /\ pc' = [pc EXCEPT ![c] = "idle"]
  /\ req' = [req EXCEPT ![c] = NoReq]
  /\ gets' = { r \in gets : r.caller # c }
  /\ resp' = [resp EXCEPT ![c] = NoResp]
  /\ result' = [result EXCEPT ![c] = NoResult]
  /\ UNCHANGED client

NextConc ==
  \E c \in Callers :
    \/ CallerGet(c)
    \/ CallerSendFails(c)
    \/ CallerRespond(c)
    \/ CallerBodyFails(c)
    \/ CallerJson(c)
    \/ CallerReturn(c)

SpecConc == InitConc /\ [][NextConc]_vars

(***************************************************************************)
(* Vocabulary of the properties                                            *)
(***************************************************************************)
KeyName == "x_cg_pro_api_key"

\* a call of an endpoint operation is in progress or has just completed
InCall == pc \in {"sent", "responded", "done"} /\ req.op # "get_url"

\* s ends with suffix
EndsWith(s, suffix) ==
  /\ Len(suffix) <= Len(s)
  /\ SubSeq(s, Len(s) - Len(suffix) + 1, Len(s)) = suffix

\* the tokens of s
Tokens(s) == { s[i] : i \in 1..Len(s) }

\* the elements of list in order with sep between neighbours, built from the
\* left: the first n elements
RECURSIVE JoinedUpTo(_, _, _)
JoinedUpTo(list, sep, n) ==
  IF n = 0 THEN <<>>
  ELSE IF n = 1 THEN list[1]
  ELSE JoinedUpTo(list, sep, n - 1) \o sep \o list[n]

Joined(list, sep) == JoinedUpTo(list, sep, Len(list))

(***************************************************************************)
(* C1  get_url(endpoint, params) returns exactly host + endpoint + segment *)
(* where segment is params + "&x_cg_pro_api_key=" + key (both present),    *)
(* params (key absent), "?x_cg_pro_api_key=" + key (params absent), or the *)
(* empty string (both absent); it always returns a string.  Stated for     *)
(* every call of get_url: the direct ones and the one each operation makes.*)
(***************************************************************************)
C1_GetUrlContract ==
  req.op # "none" =>
    LET p == req.params
        k == client.api_key
        base == client.host \o req.endpoint
    IN /\ (p.some /\ k.some) =>
            req.url = base \o p.val \o <<"&", KeyName, "=">> \o k.val
       /\ (p.some /\ ~k.some) => req.url = base \o p.val
       /\ (~p.some /\ k.some) => req.url = base \o <<"?", KeyName, "=">> \o k.val
       /\ (~p.some /\ ~k.some) => req.url = base
       /\ req.op = "get_url" => (pc = "done" /\ result = Ok(req.url))

\* get_url was called directly with a query and the client has a key
C1_Witness ==
  /\ pc = "done"
  /\ req.op = "get_url"
  /\ req.params = Some(<<"?", "ids", "=", "1">>)
  /\ req.endpoint = <<"/simple/price">>
  /\ client.api_key = Some(<<"abc">>)

(***************************************************************************)
(* C2  On a client with a key every request URL of every operation holds   *)
(* the parameter x_cg_pro_api_key=<key> exactly once, as the last          *)
(* parameter of the query (behind the "?" that opens the query, or behind  *)
(* an "&" that follows it); on a client without a key no request URL holds *)
(* x_cg_pro_api_key.                                                       *)
(***************************************************************************)
C2_KeyOnEveryRequest ==
  InCall =>
    \A g \in 1..Len(gets) :
      LET url == gets[g]
          k == client.api_key
      IN IF k.some
           THEN LET n == Len(url) - Len(k.val) - 1
                IN /\ n >= 2
                   /\ Count(KeyName, url) = 1
                   /\ EndsWith(url, <<KeyName, "=">> \o k.val)
                   /\ url[n - 1] \in {"?", "&"}
                   /\ url[n - 1] = "?" => Count("?", url) = 1
                   /\ url[n - 1] = "&" => "?" \in Tokens(SubSeq(url, 1, n - 2))
           ELSE Count(KeyName, url) = 0

\* a price request for two ids on a client with key abc
C2_Witness ==
  /\ pc = "sent"
  /\ req.op = "price"
  /\ client.api_key = Some(<<"abc">>)
  /\ Len(req.args.ids) = 2

(***************************************************************************)
(* C3  When the transport answers with status 500 the call returns a       *)
(* TransportFailure, whatever the body is: never a decoded value and never *)
(* a DecodeFailure.                                                        *)
(***************************************************************************)
C3_Status500IsTransportFailure ==
  (InCall /\ pc = "done" /\ resp.state \in {"broken", "complete"}
     /\ resp.status = 500)
    => result = Err("Transport")

(***************************************************************************)
(* C4  When a success response is delivered whose body is malformed JSON   *)
(* or does not match the declared result type, the call returns a          *)
(* DecodeFailure and no value.                                             *)
(***************************************************************************)
C4_BadBodyIsDecodeFailure ==
  (InCall /\ pc = "done" /\ resp.state = "complete" /\ resp.status = 200
     /\ (~resp.body.json \/ resp.body.shape # req.rtype))
    => result = Err("Decode")

\* ping got a 200 whose JSON lacks the field of SimplePing
C4_Witness ==
  /\ pc = "done"
  /\ req.op = "ping"
  /\ resp.state = "complete"
  /\ resp.status = 200
  /\ resp.body = [json |-> TRUE, shape |-> "other"]
  /\ result = Err("Decode")

(***************************************************************************)
(* C5  Each call of an operation issues exactly one GET, for the URL it    *)
(* built; when the call completes, with a value or with an error, that     *)
(* request has completed and no second request was issued.                 *)
(***************************************************************************)
C5_OneRequestPerCall ==
  InCall =>
    /\ gets = <<req.url>>
    /\ pc = "done" =>
         /\ resp.state \in {"failed", "broken", "complete"}
         /\ result.state \in {"ok", "err"}
    /\ pc # "done" => result = NoResult

\* a call that ended in a transport failure
C5_Witness ==
  /\ pc = "done"
  /\ req.op = "coin_ohlc"
  /\ resp.state = "failed"
  /\ result = Err("Transport")
  /\ Len(gets) = 1

(***************************************************************************)
(* Reading a query string                                                  *)
(***************************************************************************)
\* the query the operation handed to get_url
Query == req.params.val

\* the places where the parameter key= starts in q
KeyAt(key, q) == { i \in 1..(Len(q) - 1) : q[i] = key /\ q[i + 1] = "=" }

\* the value of the parameter that starts at place i: the tokens behind its
\* "=" up to the next "&" or the end of q
ValueAt(i, q) ==
  LET stops == { j \in (i + 2)..Len(q) : q[j] = "&" }
      end == IF stops = {} THEN Len(q)
             ELSE (CHOOSE j \in stops : \A x \in stops : j <= x) - 1
  IN SubSeq(q, i + 2, end)

\* q holds the parameter key exactly once, with value v
HasOnce(key, v, q) ==
  /\ Count(key, q) = 1
  /\ \E i \in KeyAt(key, q) : ValueAt(i, q) = v

\* the sum of the occurrences of token t in the elements of list
RECURSIVE CountIn(_, _)
CountIn(t, list) ==
  IF list = <<>> THEN 0 ELSE Count(t, Head(list)) + CountIn(t, Tail(list))

\* the list arguments of the call in progress, each with its parameter key
ListArgs ==
  CASE req.op = "price" ->
         { <<"ids", req.args.ids>>,
           <<"vs_currencies", req.args.vs_currencies>> }
    [] req.op = "token_price" ->
         { <<"contract_addresses", req.args.contract_addresses>>,
           <<"vs_currencies", req.args.vs_currencies>> }
    [] req.op = "coins_markets" -> { <<"ids", req.args.ids>> }
    [] req.op = "coin_tickers" ->
         IF req.args.exchange_ids.some
           THEN { <<"exchange_ids", req.args.exchange_ids.val>> } ELSE {}
    [] req.op = "exchange_tickers" ->
         IF req.args.coin_ids.some
           THEN { <<"coin_ids", req.args.coin_ids.val>> } ELSE {}
    [] OTHER -> {}

(***************************************************************************)
(* C6 as stated  For every non-empty list of n elements the fragment built *)
(* for it holds exactly n-1 occurrences of %2C and no raw comma.           *)
(***************************************************************************)
C6_Original ==
  InCall =>
    \A a \in ListArgs :
      a[2] # <<>> =>
        \E i \in KeyAt(a[1], Query) :
          /\ Count("%2C", ValueAt(i, Query)) = Len(a[2]) - 1
          /\ Count(",", ValueAt(i, Query)) = 0

(***************************************************************************)
(* C6 amended  For every non-empty list of n elements the fragment built   *)
(* for it is the elements, unchanged and in their order, joined by %2C: it *)
(* holds n-1 occurrences of %2C and no raw comma besides the ones the      *)
(* elements themselves hold.                                               *)
(***************************************************************************)
C6_JoinedByEncodedComma ==
  InCall =>
    \A a \in ListArgs :
      a[2] # <<>> =>
        \E i \in KeyAt(a[1], Query) :
          /\ ValueAt(i, Query) = Joined(a[2], <<"%2C">>)
          /\ Count("%2C", ValueAt(i, Query))
               = Len(a[2]) - 1 + CountIn("%2C", a[2])
          /\ Count(",", ValueAt(i, Query)) = CountIn(",", a[2])

\* coin_tickers asked for two exchanges, the second one with a comma inside
C6_Witness ==
  /\ pc = "sent"
  /\ req.op = "coin_tickers"
  /\ req.args.exchange_ids = Some(<< <<"bitcoin">>, <<"ethereum", ",", "tether">> >>)

(***************************************************************************)
(* C7  An optional parameter that is omitted leaves no key in the query    *)
(* (neither key= nor key=None); one that is present occurs exactly once,   *)
(* as key=<value>.  On the wire the event_type of events is the key type.  *)
(***************************************************************************)
\* the optional arguments of the call in progress: key, argument, and the
\* value the argument is written as
OptArgs ==
  CASE req.op = "coins_markets" ->
         { <<"category", req.args.category>> }
    [] req.op = "coin_tickers" ->
         { <<"exchange_ids",
             IF req.args.exchange_ids.some
               THEN Some(Joined(req.args.exchange_ids.val, <<"%2C">>))
               ELSE None>> }
    [] req.op = "exchange_tickers" ->
         { <<"coin_ids",
             IF req.args.coin_ids.some
               THEN Some(Joined(req.args.coin_ids.val, <<"%2C">>))
               ELSE None>> }
    [] req.op = "status_updates" ->
         { <<"category", req.args.category>>,
           <<"project_type", req.args.project_type>> }
    [] req.op = "events" ->
         { <<"country_code", req.args.country_code>>,
           <<"type", req.args.event_type>> }
    [] OTHER -> {}

C7_OmittedOptionalLeavesNoKey ==
  InCall =>
    \A a \in OptArgs :
      IF a[2].some
        THEN HasOnce(a[1], a[2].val, Query)
        ELSE Count(a[1], Query) = 0 /\ Count("None", Query) = 0

\* status_updates without a category and with a project type
C7_Witness ==
  /\ pc = "sent"
  /\ req.op = "status_updates"
  /\ req.args.category = None
  /\ req.args.project_type = Some(<<"bitcoin">>)

(***************************************************************************)
(* C8  Every query string an operation hands to get_url starts with "?",   *)
(* followed by one or more key=value pairs separated by single "&": no     *)
(* empty pair and no value without a key.                                  *)
(***************************************************************************)
\* the pieces of s between the occurrences of token sep
RECURSIVE Split(_, _, _)
Split(s, sep, piece) ==
  IF s = <<>> THEN <<piece>>
  ELSE IF Head(s) = sep THEN <<piece>> \o Split(Tail(s), sep, <<>>)
  ELSE Split(Tail(s), sep, Append(piece, Head(s)))

IsPair(piece) ==
  /\ Len(piece) >= 2
  /\ piece[1] \notin {"=", "?", "-"} \cup Tokens(Digit)
  /\ piece[2] = "="

ValidQuery(q) ==
  /\ q # <<>>
  /\ Head(q) = "?"
  /\ LET pieces == Split(Tail(q), "&", <<>>)
     IN \A i \in 1..Len(pieces) : IsPair(pieces[i])

C8_QueryWellFormed ==
  (InCall /\ req.params.some) => ValidQuery(Query)

TrueFalse(b) == IF b THEN "true" ELSE "false"

C10_PriceUrl ==
  (InCall /\ req.op = "price" /\ ~client.api_key.some) =>
    gets = << client.host
              \o <<"/simple/price", "?", "ids", "=">>
              \o Joined(req.args.ids, <<"%2C">>)
              \o <<"&", "vs_currencies", "=">>
              \o Joined(req.args.vs_currencies, <<"%2C">>)
              \o <<"&", "include_market_cap", "=", TrueFalse(req.args.flags[1]),
                   "&", "include_24hr_vol", "=", TrueFalse(req.args.flags[2]),
                   "&", "include_24hr_change", "=", TrueFalse(req.args.flags[3]),
                   "&", "include_last_updated_at", "=",
                   TrueFalse(req.args.flags[4])>> >>

\* price(["bitcoin"], ["usd"], true, false, false, false) against host h
C10_Witness ==
  /\ pc = "sent"
  /\ req.op = "price"
  /\ req.args = [ids |-> << <<"bitcoin">> >>, vs_currencies |-> << <<"usd">> >>,
                 flags |-> <<TRUE, FALSE, FALSE, FALSE>>]
  /\ gets = << <<"h", "/simple/price", "?", "ids", "=", "bitcoin",
                 "&", "vs_currencies", "=", "usd",
                 "&", "include_market_cap", "=", "true",
                 "&", "include_24hr_vol", "=", "false",
                 "&", "include_24hr_change", "=", "false",
                 "&", "include_last_updated_at", "=", "false">> >>

(***************************************************************************)
(* C11  An operation that takes no query parameters requests exactly       *)
(* host + path + "?x_cg_pro_api_key=" + key on a client with a key and     *)
(* host + path, without any "?", on a client without one; ping on a client *)
(* with key abc requests h/ping?x_cg_pro_api_key=abc.                      *)
(***************************************************************************)
\* the operations without query parameters
NoQueryOps ==
  { "ping", "supported_vs_currencies", "contract", "asset_platforms",
    "categories_list", "categories", "exchanges_list", "exchange",
    "indexes_market_id", "indexes_list", "derivative_exchanges_list",
    "event_countries", "event_types", "exchange_rates", "trending", "global",
    "global_defi", "companies" }

\* the path of the call in progress, an operation of NoQueryOps
NoQueryPath ==
  CASE req.op = "ping" -> <<"/ping">>
    [] req.op = "supported_vs_currencies" -> <<"/simple/supported_vs_currencies">>
    [] req.op = "contract" ->
         <<"/coins/">> \o req.args.id \o <<"/contract/">>
           \o req.args.contract_address
    [] req.op = "asset_platforms" -> <<"/asset_platforms">>
    [] req.op = "categories_list" -> <<"/coins/categories/list">>
    [] req.op = "categories" -> <<"/coins/categories">>
    [] req.op = "exchanges_list" -> <<"/exchanges/list">>
    [] req.op = "exchange" -> <<"/exchanges/">> \o req.args.id
    [] req.op = "indexes_market_id" ->
         <<"/indexes/">> \o req.args.market_id \o <<"/">> \o req.args.id
    [] req.op = "indexes_list" -> <<"/indexes/list">>
    [] req.op = "derivative_exchanges_list" -> <<"/derivatives/exchanges/list">>
    [] req.op \in {"event_countries", "event_types"} -> <<"/events/types">>
    [] req.op = "exchange_rates" -> <<"/exchange_rates">>
    [] req.op = "trending" -> <<"/search/trending">>
    [] req.op = "global" -> <<"/global">>
    [] req.op = "global_defi" -> <<"/global/decentralized_finance_defi">>
    [] req.op = "companies" ->
         IF req.args.coin_id = "Bitcoin"
           THEN <<"/companies/public_treasury/bitcoin">>
           ELSE <<"/companies/public_treasury/ethereum">>

C11_NoQueryUrl ==
  (InCall /\ req.op \in NoQueryOps) =>
    IF client.api_key.some
      THEN gets = << client.host \o NoQueryPath
                       \o <<"?", KeyName, "=">> \o client.api_key.val >>
      ELSE /\ gets = << client.host \o NoQueryPath >>
           /\ Count("?", gets[1]) = 0

\* ping on the client with host h and key abc
C11_Witness ==
  /\ pc = "sent"
  /\ req.op = "ping"
  /\ gets = << <<"h", "/ping", "?", "x_cg_pro_api_key", "=", "abc">> >>

(***************************************************************************)
(* C12  coin_ohlc writes its day count as days=<n> with n fixed by the     *)
(* variant: OneDay 1, SevenDays 7, FourteenDays 14, ThirtyDays 30,         *)
(* NinetyDays 90, OneHundredEightyDays 180, ThreeHundredSixtyFiveDays 365; *)
(* the value sent tells the variant, and no other value is sent.           *)
(***************************************************************************)
\* the digits the claim gives for each variant
OhlcDigits ==
  [ OneDay |-> <<"1">>, SevenDays |-> <<"7">>, FourteenDays |-> <<"1", "4">>,
    ThirtyDays |-> <<"3", "0">>, NinetyDays |-> <<"9", "0">>,
    OneHundredEightyDays |-> <<"1", "8", "0">>,
    ThreeHundredSixtyFiveDays |-> <<"3", "6", "5">> ]

C12_OhlcDays ==
  (InCall /\ req.op = "coin_ohlc") =>
    /\ req.args.days \in DOMAIN OhlcDigits
    /\ HasOnce("days", OhlcDigits[req.args.days], Query)
    /\ \A v \in OhlcDays :
         HasOnce("days", OhlcDigits[v], Query) => v = req.args.days
    /\ Query = <<"?", "vs_currency", "=">> \o req.args.vs_currency
                 \o <<"&", "days", "=">> \o OhlcDigits[req.args.days]

\* coin_ohlc("bitcoin", "usd", SevenDays) sends days=7
C12_Witness ==
  /\ pc = "sent"
  /\ req.op = "coin_ohlc"
  /\ req.args = [id |-> <<"bitcoin">>, vs_currency |-> <<"usd">>,
                 days |-> "SevenDays"]
  /\ Query = <<"?", "vs_currency", "=", "usd", "&", "days", "=", "7">>

(***************************************************************************)
(* C13  derivatives and derivatives_exchange always send include_tickers:  *)
(* all for Some(All), unexpired for Some(Unexpired) and for None; both     *)
(* operations map alike and send nothing else.                             *)
(***************************************************************************)
C13_IncludeTickers ==
  (InCall /\ req.op \in {"derivatives", "derivatives_exchange"}) =>
    LET it == req.args.include_tickers
        token == IF it = Some("All") THEN "all" ELSE "unexpired"
    IN /\ it \in {None, Some("All"), Some("Unexpired")}
       /\ Query = <<"?", "include_tickers", "=", token>>

\* derivatives_exchange called without include_tickers
C13_Witness ==
  /\ pc = "sent"
  /\ req.op = "derivatives_exchange"
  /\ req.args.include_tickers = None
  /\ Query = <<"?", "include_tickers", "=", "unexpired">>

(***************************************************************************)
(* C14  Each sort-order variant is sent as one fixed lowercase token with  *)
(* underscores (MarketCapDesc as market_cap_desc), the same on every call  *)
(* and in every operation that takes the enumeration: MarketsOrder in      *)
(* coins_markets, TickersOrder in coin_tickers and exchange_tickers,       *)
(* DerivativeExchangeOrder in derivative_exchanges.                        *)
(***************************************************************************)
\* the token of each variant: its name in lowercase, words joined by "_"
OrderToken ==
  [ MarketCapDesc |-> "market_cap_desc", MarketCapAsc |-> "market_cap_asc",
    GeckoDesc |-> "gecko_desc", GeckoAsc |-> "gecko_asc",
    VolumeDesc |-> "volume_desc", VolumeAsc |-> "volume_asc",
    IdDesc |-> "id_desc", IdAsc |-> "id_asc",
    TrustScoreAsc |-> "trust_score_asc", TrustScoreDesc |-> "trust_score_desc",
    NameAsc |-> "name_asc", NameDesc |-> "name_desc",
    OpenInterestBtcAsc |-> "open_interest_btc_asc",
    OpenInterestBtcDesc |-> "open_interest_btc_desc",
    TradeVolume24hBtcAsc |-> "trade_volume_24h_btc_asc",
    TradeVolume24hBtcDesc |-> "trade_volume_24h_btc_desc" ]

\* the operations that take a sort order
OrderOps ==
  { "coins_markets", "coin_tickers", "exchange_tickers", "derivative_exchanges" }

C14_OrderTokens ==
  (InCall /\ req.op \in OrderOps) =>
    /\ req.args.order \in
         CASE req.op = "coins_markets" -> MarketsOrder
           [] req.op \in {"coin_tickers", "exchange_tickers"} -> TickersOrder
           [] req.op = "derivative_exchanges" -> DerivativeExchangeOrder
    /\ HasOnce("order", <<OrderToken[req.args.order]>>, Query)

\* coins_markets ordered by GeckoAsc
C14_Witness ==
  /\ pc = "sent"
  /\ req.op = "coins_markets"
  /\ req.args.order = "GeckoAsc"
  /\ HasOnce("order", <<"gecko_asc">>, Query)

(***************************************************************************)
(* C15  coin_history sends date=DD-MM-YYYY, day first and zero-padded;     *)
(* events sends from_date and to_date as YYYY-MM-DD, from_date holding the *)
(* from argument and to_date the to argument.                              *)
(***************************************************************************)
\* n < 100 as two digits
TwoDigits(n) == <<Digit[(n \div 10) + 1], Digit[(n % 10) + 1]>>

\* n < 10000 as four digits
FourDigits(n) == TwoDigits(n \div 100) \o TwoDigits(n % 100)

\* DD-MM-YYYY
DayFirst(date) ==
  TwoDigits(date.d) \o <<"-">> \o TwoDigits(date.m) \o <<"-">> \o FourDigits(date.y)

\* YYYY-MM-DD
YearFirst(date) ==
  FourDigits(date.y) \o <<"-">> \o TwoDigits(date.m) \o <<"-">> \o TwoDigits(date.d)

C15_DateFormats ==
  /\ (InCall /\ req.op = "coin_history") =>
       HasOnce("date", DayFirst(req.args.date), Query)
  /\ (InCall /\ req.op = "events") =>
       /\ HasOnce("from_date", YearFirst(req.args.from_date), Query)
       /\ HasOnce("to_date", YearFirst(req.args.to_date), Query)

\* coin_history for 2022-01-05 sends date=05-01-2022
C15_Witness ==
  /\ pc = "sent"
  /\ req.op = "coin_history"
  /\ req.args.date = [y |-> 2022, m |-> 1, d |-> 5]
  /\ HasOnce("date", <<"0", "5", "-", "0", "1", "-", "2", "0", "2", "2">>, Query)

\* events from 2021-10-07 to 2017-12-30
C15_WitnessEvents ==
  /\ pc = "sent"
  /\ req.op = "events"
  /\ HasOnce("from_date",
             <<"2", "0", "2", "1", "-", "1", "0", "-", "0", "7">>, Query)
  /\ HasOnce("to_date",
             <<"2", "0", "1", "7", "-", "1", "2", "-", "3", "0">>, Query)

(***************************************************************************)
(* C16  coin_market_chart_range and contract_market_chart_range send       *)
(* from= and to= as the epoch seconds of their own argument: the same      *)
(* date-time gives the same integer in every call, whatever was called     *)
(* before, and from and to are never exchanged.                            *)
(***************************************************************************)
\* the epoch seconds of the date-times of DateTimes, in decimal
Epoch(dt) ==
  CASE dt = [y |-> 2021, m |-> 1, d |-> 1, h |-> 0, mi |-> 0, s |-> 0] ->
         <<"1", "6", "0", "9", "4", "5", "9", "2", "0", "0">>
    [] dt = [y |-> 1969, m |-> 12, d |-> 31, h |-> 23, mi |-> 59, s |-> 59] ->
         <<"-", "1">>
    [] dt = [y |-> 2000, m |-> 2, d |-> 29, h |-> 12, mi |-> 0, s |-> 0] ->
         <<"9", "5", "1", "8", "2", "5", "6", "0", "0">>

\* the two range operations
RangeOps == { "coin_market_chart_range", "contract_market_chart_range" }

C16_RangeEpochs ==
  (InCall /\ req.op \in RangeOps) =>
    /\ HasOnce("from", Epoch(req.args.from), Query)
    /\ HasOnce("to", Epoch(req.args.to), Query)
    /\ Query = <<"?", "vs_currency", "=">> \o req.args.vs_currency
                 \o <<"&", "from", "=">> \o Epoch(req.args.from)
                 \o <<"&", "to", "=">> \o Epoch(req.args.to)

\* contract_market_chart_range from 2021-01-01 back to 1969-12-31T23:59:59
C16_Witness ==
  /\ pc = "sent"
  /\ req.op = "contract_market_chart_range"
  /\ HasOnce("from", <<"1", "6", "0", "9", "4", "5", "9", "2", "0", "0">>, Query)
  /\ HasOnce("to", <<"-", "1">>, Query)

(***************************************************************************)
(* C17  No operation changes the client: over any sequence of endpoint     *)
(* calls and get_url calls, successful or failed, host and api_key stay    *)
(* what construction gave, and the URL a call builds is the one a freshly  *)
(* constructed client of the same configuration builds for the arguments.  *)
(***************************************************************************)
\* a client constructed anew from the configuration of c
Fresh(c) ==
  IF c.api_key.some THEN new_with_key(c.host, c.api_key.val) ELSE new(c.host)

C17_ClientUnchanged ==
  [][ /\ client' = client
      /\ client' \in Clients
      /\ (pc = "idle" /\ pc' = "sent") =>
           gets' = << get_url(Fresh(client), req'.endpoint, req'.params) >>
      /\ (pc = "idle" /\ pc' = "done") =>
           result' = Ok(get_url(Fresh(client), req'.endpoint, req'.params)) ]_vars

\* a call on the client with key abc has failed in the decoder, and the
\* client still holds host h and key abc
C17_Witness ==
  /\ pc = "done"
  /\ InCall
  /\ result = Err("Decode")
  /\ client = [host |-> <<"h">>, api_key |-> Some(<<"abc">>)]

(***************************************************************************)
(* C19  Construction is total and does no I/O: new(host) gives a client    *)
(* with that host and no key, new_with_key(host, key) one with that host   *)
(* and that key, default() a keyless client for                            *)
(* https://api.coingecko.com/api/v3, for any host string; no HTTP request  *)
(* is made before the first endpoint operation is called.                  *)
(***************************************************************************)
\* the three constructors
Constructors == { "new", "new_with_key", "default" }

C19_Construction ==
  /\ (req.op = "new") =>
       /\ client = [host |-> req.args.host, api_key |-> None]
       /\ gets = <<>>
  /\ (req.op = "new_with_key") =>
       /\ client = [host |-> req.args.host,
                    api_key |-> [some |-> TRUE, val |-> req.args.api_key]]
       /\ gets = <<>>
  /\ (req.op = "default") =>
       /\ client = [host |-> <<"https://api.coingecko.com/api/v3">>,
                    api_key |-> None]
       /\ gets = <<>>
  /\ (pc = "start") => gets = <<>>
  /\ (gets # <<>>) => req.op \notin (Constructors \cup {"none", "get_url"})

\* new("") has returned: an empty host is taken, no request is out
C19_Witness ==
  /\ pc = "idle"
  /\ req.op = "new"
  /\ req.args.host = <<>>
  /\ client = [host |-> <<>>, api_key |-> None]
  /\ gets = <<>>

(***************************************************************************)
(* C20  The client never rejects a call locally: for every operation and   *)
(* every argument value (an empty list, an empty id, a negative page, a    *)
(* from later than to) the URL is built with the arguments as they are and *)
(* the GET is issued; a caller sees no failure but the transport's and the *)
(* decoder's.                                                              *)
(***************************************************************************)
\* the first n tokens of s
Prefix(s, n) == SubSeq(s, 1, n)

C20_NoLocalRejection ==
  InCall =>
    /\ Len(gets) = 1
    /\ Prefix(gets[1], Len(client.host \o req.endpoint)) =
         client.host \o req.endpoint
    /\ (result.state = "err") =>
         /\ result.kind \in {"Transport", "Decode"}
         /\ (result.kind = "Transport") => resp.state \in {"failed", "broken"}
         /\ (result.kind = "Decode") => resp.state = "complete"
    /\ (req.op = "price" /\ req.args.ids = <<>>) =>
         HasOnce("ids", <<>>, Query)
    /\ (req.op = "exchange" /\ req.args.id = <<>>) =>
         req.endpoint = <<"/exchanges/">>
    /\ (req.op = "exchanges" /\ req.args.page < 0) =>
         HasOnce("page", <<"-">> \o fmt_u64(0 - req.args.page), Query)
    /\ (req.op = "coin_market_chart_range"
          /\ timestamp(req.args.from) > timestamp(req.args.to)) =>
         /\ HasOnce("from", Epoch(req.args.from), Query)
         /\ HasOnce("to", Epoch(req.args.to), Query)

\* price of an empty list of ids went out as ids= and came back decoded
C20_Witness ==
  /\ pc = "done"
  /\ req.op = "price"
  /\ req.args.ids = <<>>
  /\ HasOnce("ids", <<>>, Query)
  /\ Len(gets) = 1
  /\ result.state = "ok"

\* coin_market_chart_range with from later than to was sent
C20_WitnessRange ==
  /\ pc = "sent"
  /\ req.op = "coin_market_chart_range"
  /\ timestamp(req.args.from) > timestamp(req.args.to)
  /\ Len(gets) = 1

(***************************************************************************)
(* C18  When several callers use one client at once, under every           *)
(* interleaving each call requests exactly the URL its own arguments and   *)
(* the client's configuration give, and returns the result decoded from    *)
(* the response to its own request; no call sees or changes another call's *)
(* URL, response or outcome, and the client is never changed.              *)
(***************************************************************************)
\* the URL the arguments of call r give on client c
OwnUrl(c, r) ==
  c.host
    \o (CASE r.op = "ping" -> <<"/ping">>
          [] r.op = "exchange" -> <<"/exchanges/">> \o r.args.id
          [] r.op = "exchanges" ->
               <<"/exchanges", "?", "per_page", "=">> \o fmt_i64(r.args.per_page)
                 \o <<"&", "page", "=">> \o fmt_i64(r.args.page))
    \o (IF ~c.api_key.some THEN <<>>
        ELSE IF r.op = "exchanges" THEN <<"&", KeyName, "=">> \o c.api_key.val
        ELSE <<"?", KeyName, "=">> \o c.api_key.val)

C18_CallersIndependent ==
  /\ client \in ConcClients
  /\ \A r \in gets : pc[r.caller] # "idle"
  /\ \A c \in Callers :
       (pc[c] # "idle") =>
         /\ req[c].url = OwnUrl(client, req[c])
         /\ { r \in gets : r.caller = c } = { [caller |-> c, url |-> req[c].url] }
         /\ (resp[c].state \in {"headers", "broken", "complete"}) =>
              resp[c].url = req[c].url
         /\ (pc[c] = "done" /\ resp[c].state = "complete") =>
              result[c] = IF resp[c].body.json /\ resp[c].body.shape = req[c].rtype
                            THEN Ok([type |-> req[c].rtype])
                            ELSE Err("Decode")
         /\ (pc[c] = "done" /\ resp[c].state \in {"failed", "broken"}) =>
              result[c] = Err("Transport")
         /\ (pc[c] # "done") => result[c] = NoResult

\* two calls with different URLs in flight at once: the first has its value,
\* decoded from the response to its own URL, while the second has failed
C18_Witness ==
  /\ pc[1] = "done"
  /\ pc[2] = "done"
  /\ req[1].op = "ping"
  /\ req[2].op = "exchanges"
  /\ resp[1].state = "complete"
  /\ resp[1].url = req[1].url
  /\ result[1] = Ok([type |-> "SimplePing"])
  /\ result[2] = Err("Decode")

(***************************************************************************)
(* C21  coin_market_chart adds interval=daily to the query exactly when    *)
(* use_daily_interval is true; when it is false the query is               *)
(* ?vs_currency=<c>&days=<n> with no interval parameter.                   *)
(***************************************************************************)
C21_IntervalWhenDaily ==
  (InCall /\ req.op = "coin_market_chart") =>
    LET base == <<"?", "vs_currency", "=">> \o req.args.vs_currency
                  \o <<"&", "days", "=">> \o fmt_i64(req.args.days)
    IN IF req.args.use_daily_interval
         THEN /\ HasOnce("interval", <<"daily">>, Query)
              /\ Query = base \o <<"&", "interval", "=", "daily">>
         ELSE /\ Count("interval", Query) = 0
              /\ Query = base

(***************************************************************************)
(* C22  status_updates sends its pagination as named parameters, as the    *)
(* other paginated operations do: for all arguments the query holds        *)
(* per_page=<per_page> and page=<page>, each exactly once, behind any      *)
(* category and project_type parameters.                                   *)
(***************************************************************************)
\* the paginated operations the claim names
PagedOps ==
  { "status_updates", "exchanges", "exchange_status_updates",
    "finance_platforms", "finance_products", "indexes", "derivative_exchanges" }

\* the first place in q where the parameter key= starts, 0 when there is none
FirstKeyAt(key, q) ==
  IF KeyAt(key, q) = {} THEN 0
  ELSE CHOOSE i \in KeyAt(key, q) : \A j \in KeyAt(key, q) : i <= j

C22_NamedPagination ==
  (InCall /\ req.op \in PagedOps) =>
    /\ HasOnce("per_page", fmt_i64(req.args.per_page), Query)
    /\ HasOnce("page", fmt_i64(req.args.page), Query)
    /\ FirstKeyAt("per_page", Query) < FirstKeyAt("page", Query)
    /\ (req.op = "status_updates") =>
         /\ FirstKeyAt("category", Query) < FirstKeyAt("per_page", Query)
         /\ FirstKeyAt("project_type", Query) < FirstKeyAt("per_page", Query)

\* the same statement for the paginated operations other than status_updates
C22_OthersNamed ==
  (InCall /\ req.op \in (PagedOps \ {"status_updates"})) =>
    /\ HasOnce("per_page", fmt_i64(req.args.per_page), Query)
    /\ HasOnce("page", fmt_i64(req.args.page), Query)

====
